---- MODULE Spec2Model ----
(***************************************************************************)
(* Model of package fifo (go-fifo/fifo): a thread-safe FIFO queue backed   *)
(* by a ring buffer with resizable capacity.                               *)
(*                                                                         *)
(* The current Queue is src/queue.go lines 168-366.  Every method takes    *)
(* q.mu on entry and releases it on return (defer q.mu.Unlock()) or while  *)
(* parked in q.cond.Wait().  A goroutine is modelled by its position:      *)
(*   "idle"  - between calls                                               *)
(*   "cs"    - inside a method, holding q.mu, about to run its body        *)
(*   "wait"  - parked in q.cond.Wait(), q.mu released                      *)
(*   "woken" - woken by Broadcast, waiting to re-acquire q.mu in Wait()    *)
(*   "panic" - the program has stopped on a run-time panic                 *)
(*   "start" - before New has returned the queue (NewSpec only)            *)
(*                                                                         *)
(* Go indices are 0-based; the backing slice is a TLA+ sequence, so Go's   *)
(* q.items[i] is items[i + 1].                                             *)
(***************************************************************************)
EXTENDS Integers, Sequences, FiniteSets, TLC

\* ---------------------------------------------------------------- bounds
NumProcs == 3      \* goroutines sharing the queue
MaxItems == 3      \* enqueue calls issued in one run (items are 1..MaxItems)
MaxCap   == 2      \* largest capacity given to New and Resize

Procs    == 1 .. NumProcs
NoProc   == 0
Zero     == 0      \* the zero value of T (var zero T)
InitCaps == 1 .. MaxCap
ResizeArgs == (0 - 1) .. MaxCap

\* ---------------------------------------------------------------- errors
NoErr                  == "nil"
ErrQueueFull           == "ErrQueueFull"
ErrQueueEmpty          == "ErrQueueEmpty"
ErrCapacityNotPositive == "ErrCapacityNotPositive"
ErrQueueClosed         == "ErrQueueClosed"

VARIABLES
  items,     \* q.items: the backing slice
  head,      \* q.head
  tail,      \* q.tail
  len,       \* q.len
  cap,       \* q.cap
  closed,    \* q.closed
  mu,        \* q.mu: the goroutine holding it, or NoProc
  waiters,   \* q.cond: the goroutines parked in Wait()
  pc,        \* each goroutine's position
  op,        \* the method each goroutine is in ("none" when idle)
  arg,       \* that call's argument (item or newCap)
  ret,       \* the call that returned in the last step: [proc, op, arg, err, val]
  enq,       \* history: items accepted by successful enqueues, in order
  deq,       \* history: items returned by successful dequeues, in order
  atClose,   \* history: the stored items when Close took effect
  issued     \* number of enqueue calls issued so far

qvars == <<items, head, tail, len, cap, closed>>
hist  == <<enq, deq, atClose>>
vars  == <<items, head, tail, len, cap, closed, mu, waiters, pc, op, arg, ret,
           enq, deq, atClose, issued>>

NoRet == [proc |-> NoProc, op |-> "none", arg |-> 0, err |-> NoErr, val |-> Zero]

\* ------------------------------------------------------- Go slice helpers
\* make([]T, n)
Make(n) == [i \in 1 .. n |-> Zero]

\* s[lo:hi]
Slice(s, lo, hi) == SubSeq(s, lo + 1, hi)

Min(a, b) == IF a < b THEN a ELSE b

\* copy(dst[off:], src): the resulting dst; copies min(len(dst) - off, len(src))
CopyInto(dst, off, src) ==
  LET n == Min(Len(dst) - off, Len(src))
  IN  [i \in 1 .. Len(dst) |->
         IF i > off /\ i <= off + n THEN src[i - off] ELSE dst[i]]

\* the number of elements copy(dst[off:], src) returns
CopyCount(dst, off, src) == Min(Len(dst) - off, Len(src))

\* cap(q.items): the slice is always made with len == cap
CapItems == Len(items)

\* ------------------------------------------------------------------- New
\* New(initialCapacity): the queue after construction
New(initialCapacity) ==
  [items |-> Make(initialCapacity), head |-> 0, tail |-> 0, len |-> 0,
   cap |-> initialCapacity, closed |-> FALSE]

Init ==
  /\ \E n \in InitCaps :
       LET q == New(n)
       IN  /\ items = q.items
           /\ head = q.head
           /\ tail = q.tail
           /\ len = q.len
           /\ cap = q.cap
           /\ closed = q.closed
  /\ mu = NoProc
  /\ waiters = {}
  /\ pc = [p \in Procs |-> "idle"]
  /\ op = [p \in Procs |-> "none"]
  /\ arg = [p \in Procs |-> 0]
  /\ ret = NoRet
  /\ enq = << >>
  /\ deq = << >>
  /\ atClose = << >>
  /\ issued = 0

\* ------------------------------------------------- lock / cond primitives
\* mutant: q.cond.Signal() in place of Broadcast(): one parked goroutine wakes
SignalOne == IF waiters = {} THEN {} ELSE {CHOOSE w \in waiters : TRUE}

\* mutant: the wake-up left out
NoWake == {}

\* q.cond.Broadcast(): the goroutines it wakes, i.e. every parked one
Broadcast == waiters

\* return err (and val) from a method of goroutine p: the deferred
\* q.mu.Unlock() runs; bcast tells whether q.cond.Broadcast() ran before
Return(p, err, val, bcast) ==
  /\ ret' = [proc |-> p, op |-> op[p], arg |-> arg[p], err |-> err, val |-> val]
  /\ mu' = NoProc
  /\ op' = [op EXCEPT ![p] = "none"]
  /\ arg' = [arg EXCEPT ![p] = 0]
  /\ IF bcast
     THEN /\ pc' = [r \in Procs |-> IF r = p THEN "idle"
                                    ELSE IF r \in Broadcast THEN "woken"
                                    ELSE pc[r]]
          /\ waiters' = waiters \ Broadcast
     ELSE /\ pc' = [pc EXCEPT ![p] = "idle"]
          /\ UNCHANGED waiters

\* q.cond.Wait(): p joins the wait set, releases q.mu and parks
Wait(p) ==
  /\ waiters' = waiters \cup {p}
  /\ mu' = NoProc
  /\ pc' = [pc EXCEPT ![p] = "wait"]
  /\ ret' = NoRet
  /\ UNCHANGED <<op, arg>>

\* goroutine p may start a call: it is idle and q.mu is free.  Idle
\* goroutines are interchangeable, so the call is made by the lowest one.
CanCall(p) ==
  /\ pc[p] = "idle"
  /\ mu = NoProc
  /\ \A r \in 1 .. (p - 1) : pc[r] # "idle"

\* goroutine p calls method o with argument a and takes q.mu.Lock()
Lock(p, o, a) ==
  /\ pc[p] = "idle"
  /\ mu = NoProc
  /\ mu' = p
  /\ pc' = [pc EXCEPT ![p] = "cs"]
  /\ op' = [op EXCEPT ![p] = o]
  /\ arg' = [arg EXCEPT ![p] = a]
  /\ ret' = NoRet
  /\ UNCHANGED <<qvars, waiters, hist>>

\* mutant: a woken goroutine goes on without waiting for q.mu to be free
RelockNoMutex(p) ==
  /\ pc[p] = "woken"
  /\ mu' = p
  /\ pc' = [pc EXCEPT ![p] = "cs"]
  /\ ret' = NoRet
  /\ UNCHANGED <<qvars, waiters, op, arg, hist, issued>>

\* the tail of q.cond.Wait(): a woken goroutine re-acquires q.mu
Relock(p) ==
  /\ pc[p] = "woken"
  /\ mu = NoProc
  /\ mu' = p
  /\ pc' = [pc EXCEPT ![p] = "cs"]
  /\ ret' = NoRet
  /\ UNCHANGED <<qvars, waiters, op, arg, hist, issued>>

InBody(p, o) == pc[p] = "cs" /\ mu = p /\ op[p] = o

\* a Go index expression q.items[i] is in range
InRange(i) == 0 <= i /\ i < Len(items)

\* a run-time panic (index out of range) in goroutine p: the deferred
\* q.mu.Unlock() runs while the panic unwinds and the program, with every
\* goroutine of it, stops
Panic(p) ==
  /\ pc' = [r \in Procs |-> "panic"]
  /\ mu' = NoProc
  /\ ret' = NoRet
  /\ UNCHANGED <<qvars, waiters, op, arg, hist>>

\* mutant: the cursor advanced modulo q.cap instead of cap(q.items)
NextIndexCap(i) == (i + 1) % cap

\* (i + 1) % cap(q.items): a cursor advanced by one slot
NextIndex(i) == (i + 1) % CapItems

\* the stored items in FIFO order: len slots read from head, wrapping at the
\* end of the backing slice
Stored == [i \in 1 .. len |-> items[((head + i - 1) % Len(items)) + 1]]

\* ------------------------------------------------------------ TryEnqueue
\* mutant: the full test written len == cap
TryEnqueueCheckEq ==
  IF closed THEN ErrQueueClosed
  ELSE IF len = cap THEN ErrQueueFull
  ELSE NoErr

\* mutant: the full test written len > cap, so that a queue holding exactly
\* cap items accepts one more
TryEnqueueCheckGt ==
  IF closed THEN ErrQueueClosed
  ELSE IF len > cap THEN ErrQueueFull
  ELSE NoErr

\* the early returns of TryEnqueue
TryEnqueueCheck ==
  IF closed THEN ErrQueueClosed
  ELSE IF len >= cap THEN ErrQueueFull
  ELSE NoErr

TryEnqueue(p) ==
  /\ InBody(p, "TryEnqueue")
  /\ IF TryEnqueueCheck # NoErr
     THEN /\ Return(p, TryEnqueueCheck, Zero, FALSE)
          /\ UNCHANGED <<qvars, hist>>
     ELSE IF ~InRange(tail)
     THEN Panic(p)
     ELSE /\ items' = [items EXCEPT ![tail + 1] = arg[p]]
          /\ tail' = NextIndex(tail)
          /\ len' = len + 1
          /\ enq' = Append(enq, arg[p])
          /\ Return(p, NoErr, Zero, TRUE)
          /\ UNCHANGED <<head, cap, closed, deq, atClose>>
  /\ UNCHANGED issued

\* --------------------------------------------------------------- Enqueue
\* mutant: the loop condition without !q.closed
EnqueueWaitsNoClosed == len >= cap

\* mutant: the loop condition written q.len == q.cap
EnqueueWaitsEq == len = cap /\ ~closed

\* the loop condition of Enqueue: for q.len >= q.cap && !q.closed
EnqueueWaits == len >= cap /\ ~closed

\* mutant: no check of q.closed after the loop
EnqueueCheckNone == NoErr

\* the check after the loop: if q.closed
EnqueueCheck == IF closed THEN ErrQueueClosed ELSE NoErr

Enqueue(p) ==
  /\ InBody(p, "Enqueue")
  /\ IF EnqueueWaits
     THEN /\ Wait(p)
          /\ UNCHANGED <<qvars, hist>>
     ELSE IF EnqueueCheck # NoErr
     THEN /\ Return(p, EnqueueCheck, Zero, FALSE)
          /\ UNCHANGED <<qvars, hist>>
     ELSE IF ~InRange(tail)
     THEN Panic(p)
     ELSE /\ items' = [items EXCEPT ![tail + 1] = arg[p]]
          /\ tail' = NextIndex(tail)
          /\ len' = len + 1
          /\ enq' = Append(enq, arg[p])
          /\ Return(p, NoErr, Zero, TRUE)
          /\ UNCHANGED <<head, cap, closed, deq, atClose>>
  /\ UNCHANGED issued

\* ------------------------------------------------------------ TryDequeue
\* mutant: the dequeued slot is not cleared
KeepSlot(i) == items

\* q.items[i] = zero: the slice with the dequeued slot cleared
ClearSlot(i) == [items EXCEPT ![i + 1] = Zero]

\* mutant: q.closed tested before q.len
TryDequeueCheckClosedFirst ==
  IF closed THEN ErrQueueClosed
  ELSE IF len = 0 THEN ErrQueueEmpty
  ELSE NoErr

\* mutant: no ErrQueueEmpty return, an empty open queue is read
TryDequeueCheckNoEmpty ==
  IF len = 0 /\ closed THEN ErrQueueClosed ELSE NoErr

\* the early returns of TryDequeue
TryDequeueCheck ==
  IF len = 0
  THEN IF closed THEN ErrQueueClosed ELSE ErrQueueEmpty
  ELSE NoErr

TryDequeue(p) ==
  /\ InBody(p, "TryDequeue")
  /\ IF TryDequeueCheck # NoErr
     THEN /\ Return(p, TryDequeueCheck, Zero, FALSE)
          /\ UNCHANGED <<qvars, hist>>
     ELSE IF ~InRange(head)
     THEN Panic(p)
     ELSE /\ items' = ClearSlot(head)
          /\ head' = NextIndex(head)
          /\ len' = len - 1
          /\ deq' = Append(deq, items[head + 1])
          /\ Return(p, NoErr, items[head + 1], TRUE)
          /\ UNCHANGED <<tail, cap, closed, enq, atClose>>
  /\ UNCHANGED issued

\* --------------------------------------------------------------- Dequeue
\* mutant: Dequeue without its wait loop
DequeueWaitsNever == FALSE

\* the loop of Dequeue: for q.len == 0 { if q.closed { return }; Wait() }
DequeueWaits == len = 0 /\ ~closed

DequeueCheck == IF len = 0 /\ closed THEN ErrQueueClosed ELSE NoErr

Dequeue(p) ==
  /\ InBody(p, "Dequeue")
  /\ IF DequeueCheck # NoErr
     THEN /\ Return(p, DequeueCheck, Zero, FALSE)
          /\ UNCHANGED <<qvars, hist>>
     ELSE IF DequeueWaits
     THEN /\ Wait(p)
          /\ UNCHANGED <<qvars, hist>>
     ELSE IF ~InRange(head)
     THEN Panic(p)
     ELSE /\ items' = ClearSlot(head)
          /\ head' = NextIndex(head)
          /\ len' = len - 1
          /\ deq' = Append(deq, items[head + 1])
          /\ Return(p, NoErr, items[head + 1], TRUE)
          /\ UNCHANGED <<tail, cap, closed, enq, atClose>>
  /\ UNCHANGED issued

\* ---------------------------------------------------------------- Resize
\* mutant: a new capacity below the occupancy is refused
ResizeCheckTooSmall(newCap) ==
  IF newCap = cap THEN "noop"
  ELSE IF newCap <= 0 THEN ErrCapacityNotPositive
  ELSE IF newCap < len THEN "ErrNewCapacityTooSmall"
  ELSE IF closed THEN ErrQueueClosed
  ELSE NoErr

\* mutant: no test of q.closed
ResizeCheckNoClosed(newCap) ==
  IF newCap = cap THEN "noop"
  ELSE IF newCap <= 0 THEN ErrCapacityNotPositive
  ELSE NoErr

\* mutant: q.closed tested first
ResizeCheckClosedFirst(newCap) ==
  IF closed THEN ErrQueueClosed
  ELSE IF newCap = cap THEN "noop"
  ELSE IF newCap <= 0 THEN ErrCapacityNotPositive
  ELSE NoErr

\* the early returns of Resize, in the order of the code
ResizeCheck(newCap) ==
  IF newCap = cap THEN "noop"
  ELSE IF newCap <= 0 THEN ErrCapacityNotPositive
  ELSE IF closed THEN ErrQueueClosed
  ELSE NoErr

\* mutant: the new slice made with newCap slots whatever the occupancy
NewSizeNoHeadroom(newCap) == newCap

\* ns: the length of the new backing slice ("Ensure no data loss")
NewSize(newCap) == IF len > newCap THEN len ELSE newCap

\* mutant: head <= tail taken as "does not wrap", so that a full buffer with
\* head == tail is copied as the empty slice [head, tail)
ResizeItemsLeq(newCap) ==
  LET newItems == Make(NewSize(newCap))
  IN  IF len > 0
      THEN IF head <= tail
           THEN CopyInto(newItems, 0, Slice(items, head, tail))
           ELSE LET n == CopyCount(newItems, 0, Slice(items, head, Len(items)))
                IN  CopyInto(CopyInto(newItems, 0, Slice(items, head, Len(items))),
                             n, Slice(items, 0, tail))
      ELSE newItems

\* newItems after the copy from the old slice
ResizeItems(newCap) ==
  LET newItems == Make(NewSize(newCap))
  IN  IF len > 0
      THEN IF head < tail
           THEN CopyInto(newItems, 0, Slice(items, head, tail))
           ELSE LET n == CopyCount(newItems, 0, Slice(items, head, Len(items)))
                IN  CopyInto(CopyInto(newItems, 0, Slice(items, head, Len(items))),
                             n, Slice(items, 0, tail))
      ELSE newItems

Resize(p) ==
  /\ InBody(p, "Resize")
  /\ IF ResizeCheck(arg[p]) = "noop"
     THEN /\ Return(p, NoErr, Zero, FALSE)
          /\ UNCHANGED qvars
     ELSE IF ResizeCheck(arg[p]) # NoErr
     THEN /\ Return(p, ResizeCheck(arg[p]), Zero, FALSE)
          /\ UNCHANGED qvars
     ELSE /\ items' = ResizeItems(arg[p])
          /\ head' = 0
          /\ tail' = len % NewSize(arg[p])
          /\ cap' = arg[p]
          /\ Return(p, NoErr, Zero, TRUE)
          /\ UNCHANGED <<len, closed>>
  /\ UNCHANGED <<hist, issued>>

\* ----------------------------------------------------------------- Close
\* mutant: no test of q.closed, a second Close succeeds like the first
CloseCheckNone == NoErr

\* the early return of Close: if q.closed
CloseCheck == IF closed THEN ErrQueueClosed ELSE NoErr

\* mutant: Close written as a toggle, q.closed = !q.closed, so that a second
\* Close reopens the queue
CloseReopen(p) ==
  /\ InBody(p, "Close")
  /\ closed' = ~closed
  /\ atClose' = IF closed THEN atClose ELSE Stored
  /\ Return(p, NoErr, Zero, TRUE)
  /\ UNCHANGED <<items, head, tail, len, cap, enq, deq, issued>>

Close(p) ==
  /\ InBody(p, "Close")
  /\ IF CloseCheck # NoErr
     THEN /\ Return(p, CloseCheck, Zero, FALSE)
          /\ UNCHANGED <<closed, atClose>>
     ELSE /\ closed' = TRUE
          /\ atClose' = Stored
          /\ Return(p, NoErr, Zero, TRUE)
  /\ UNCHANGED <<items, head, tail, len, cap, enq, deq, issued>>

\* ------------------------------------------------------------- Len / Cap
LenOp(p) ==
  /\ InBody(p, "Len")
  /\ Return(p, NoErr, len, FALSE)
  /\ UNCHANGED <<qvars, hist, issued>>

\* mutant: Cap returning cap(q.items), the length of the backing slice
CapOpItems(p) ==
  /\ InBody(p, "Cap")
  /\ Return(p, NoErr, CapItems, FALSE)
  /\ UNCHANGED <<qvars, hist, issued>>

CapOp(p) ==
  /\ InBody(p, "Cap")
  /\ Return(p, NoErr, cap, FALSE)
  /\ UNCHANGED <<qvars, hist, issued>>

\* ----------------------------------------------------------------- calls
\* a goroutine calls TryEnqueue(item) / Enqueue(item) with a fresh item
CallEnqueue(p) ==
  /\ CanCall(p)
  /\ issued < MaxItems
  /\ \E o \in {"TryEnqueue", "Enqueue"} : Lock(p, o, issued + 1)
  /\ issued' = issued + 1

CallDequeue(p) ==
  /\ CanCall(p)
  /\ \E o \in {"TryDequeue", "Dequeue"} : Lock(p, o, 0)
  /\ UNCHANGED issued

CallResize(p) ==
  /\ CanCall(p)
  /\ \E n \in ResizeArgs : Lock(p, "Resize", n)
  /\ UNCHANGED issued

CallClose(p) ==
  /\ CanCall(p)
  /\ Lock(p, "Close", 0)
  /\ UNCHANGED issued

CallLenCap(p) ==
  /\ CanCall(p)
  /\ \E o \in {"Len", "Cap"} : Lock(p, o, 0)
  /\ UNCHANGED issued

\* the body of whichever method goroutine p is in
Body(p) ==
  \/ TryEnqueue(p)
  \/ Enqueue(p)
  \/ TryDequeue(p)
  \/ Dequeue(p)
  \/ Resize(p)
  \/ Close(p)
  \/ LenOp(p)
  \/ CapOp(p)

Next ==
  \E p \in Procs :
    \/ CallEnqueue(p)
    \/ CallDequeue(p)
    \/ CallResize(p)
    \/ CallClose(p)
    \/ CallLenCap(p)
    \/ Relock(p)
    \/ Body(p)

Spec == Init /\ [][Next]_vars

\* Fair scheduling: a goroutine holding q.mu runs its method body to the
\* return or to the next Wait (the Go scheduler runs every runnable
\* goroutine), and a woken goroutine eventually re-acquires q.mu although
\* others take it in between (sync.Mutex hands the lock to a waiter that
\* has been starved: starvation mode).
Fairness == \A p \in Procs : WF_vars(Body(p)) /\ SF_vars(Relock(p))

\* The queue under Close: goroutines enqueue, dequeue and close, and none
\* resizes or reads Len/Cap.
NextClose ==
  \E p \in Procs :
    \/ CallEnqueue(p)
    \/ CallDequeue(p)
    \/ CallClose(p)
    \/ Relock(p)
    \/ TryEnqueue(p)
    \/ Enqueue(p)
    \/ TryDequeue(p)
    \/ Dequeue(p)
    \/ Close(p)

CloseSpec == Init /\ [][NextClose]_vars /\ Fairness

\* ----------------------------------------------- producers and consumers
\* The concurrent blocking tests: producer goroutines call only Enqueue,
\* consumer goroutines only Dequeue, MaxItems calls in total on each side,
\* and the queue is never closed or resized.
Producers == {p \in Procs : p % 2 = 1}
Consumers == {p \in Procs : p % 2 = 0}

\* Dequeue calls issued so far: the ones that returned and the ones under way
DequeueCalls == Len(deq) + Cardinality({p \in Procs : op[p] = "Dequeue"})

ProducerCall(p) ==
  /\ p \in Producers
  /\ \A r \in Producers : pc[r] = "idle" => p <= r
  /\ issued < MaxItems
  /\ Lock(p, "Enqueue", issued + 1)
  /\ issued' = issued + 1

ConsumerCall(p) ==
  /\ p \in Consumers
  /\ \A r \in Consumers : pc[r] = "idle" => p <= r
  /\ DequeueCalls < MaxItems
  /\ Lock(p, "Dequeue", 0)
  /\ UNCHANGED issued

NextPC ==
  \E p \in Procs :
    \/ ProducerCall(p)
    \/ ConsumerCall(p)
    \/ Relock(p)
    \/ Enqueue(p)
    \/ Dequeue(p)

\* Fair scheduling of the test: as in Fairness, and the goroutines go on to
\* make the calls that are left.
FairnessPC ==
  /\ \A p \in Procs : WF_vars(Enqueue(p) \/ Dequeue(p)) /\ SF_vars(Relock(p))
  /\ SF_vars(\E p \in Procs : ProducerCall(p))
  /\ SF_vars(\E p \in Procs : ConsumerCall(p))

SpecPC == Init /\ [][NextPC]_vars /\ FairnessPC

\* ------------------------------------------------------ growing the queue
\* The blocking-enqueue-and-resize test: goroutines call only Enqueue,
\* MaxItems calls in total, while Resize calls raise the capacity; nothing
\* is dequeued and the queue is never closed.
GrowArgs == 1 .. MaxItems

EnqueueCall(p) ==
  /\ issued < MaxItems
  /\ Lock(p, "Enqueue", issued + 1)
  /\ issued' = issued + 1

GrowCall(p) ==
  /\ \E n \in GrowArgs : n > cap /\ Lock(p, "Resize", n)
  /\ UNCHANGED issued

NextGrow ==
  \E p \in Procs :
    \/ EnqueueCall(p)
    \/ GrowCall(p)
    \/ Relock(p)
    \/ Enqueue(p)
    \/ Resize(p)

GrowSpec == Init /\ [][NextGrow]_vars /\ Fairness

\* ----------------------------------------------------------- construction
\* The program from before the call of New: every goroutine is at "start"
\* until the queue is constructed, and New's argument is any integer of
\* NewArgs.
NewArgs == (0 - 1) .. MaxCap

\* mutant: the guard of New written initialCapacity < 0
NewCheckNegative(initialCapacity) ==
  IF initialCapacity < 0 THEN ErrCapacityNotPositive ELSE NoErr

\* the guard of New: if initialCapacity <= 0 { panic(ErrCapacityNotPositive) }
NewCheck(initialCapacity) ==
  IF initialCapacity <= 0 THEN ErrCapacityNotPositive ELSE NoErr

\* no queue: New has not returned one
NoQueue ==
  [items |-> << >>, head |-> 0, tail |-> 0, len |-> 0, cap |-> 0,
   closed |-> FALSE]

InitNew ==
  /\ items = NoQueue.items
  /\ head = NoQueue.head
  /\ tail = NoQueue.tail
  /\ len = NoQueue.len
  /\ cap = NoQueue.cap
  /\ closed = NoQueue.closed
  /\ mu = NoProc
  /\ waiters = {}
  /\ pc = [p \in Procs |-> "start"]
  /\ op = [p \in Procs |-> "none"]
  /\ arg = [p \in Procs |-> 0]
  /\ ret = NoRet
  /\ enq = << >>
  /\ deq = << >>
  /\ atClose = << >>
  /\ issued = 0

\* q := New(n): it panics with ErrCapacityNotPositive before any queue
\* exists, so that no method is ever called, or returns the queue the
\* goroutines share
CallNew ==
  /\ \A p \in Procs : pc[p] = "start"
  /\ \E n \in NewArgs :
       IF NewCheck(n) # NoErr
       THEN /\ pc' = [p \in Procs |-> "panic"]
            /\ ret' = [proc |-> NoProc, op |-> "New", arg |-> n,
                       err |-> NewCheck(n), val |-> Zero]
            /\ UNCHANGED qvars
       ELSE /\ items' = New(n).items
            /\ head' = New(n).head
            /\ tail' = New(n).tail
            /\ len' = New(n).len
            /\ cap' = New(n).cap
            /\ closed' = New(n).closed
            /\ pc' = [p \in Procs |-> "idle"]
            /\ ret' = [proc |-> NoProc, op |-> "New", arg |-> n,
                       err |-> NoErr, val |-> Zero]
  /\ UNCHANGED <<mu, waiters, op, arg, hist, issued>>

NextNew ==
  \/ CallNew
  \/ Next

NewSpec == InitNew /\ [][NextNew]_vars

\* ------------------------------------------- variant that forbids shrinking
\* The historical Queue of src/unnamed/part_003: Enqueue and Dequeue are the
\* non-blocking methods, BlockingEnqueue and BlockingDequeue the blocking
\* ones, cursors advance modulo q.cap, and Resize refuses a capacity below
\* the occupancy.  New, Close, Len and Cap are those of the current Queue.
ErrNewCapacityTooSmall == "ErrNewCapacityTooSmall"

\* (i + 1) % q.cap
StrictNextIndex(i) == (i + 1) % cap

\* the early returns of Enqueue
StrictEnqueueCheck ==
  IF closed THEN ErrQueueClosed
  ELSE IF len = cap THEN ErrQueueFull
  ELSE NoErr

StrictEnqueue(p) ==
  /\ InBody(p, "Enqueue")
  /\ IF StrictEnqueueCheck # NoErr
     THEN /\ Return(p, StrictEnqueueCheck, Zero, FALSE)
          /\ UNCHANGED <<qvars, hist>>
     ELSE IF ~InRange(tail)
     THEN Panic(p)
     ELSE /\ items' = [items EXCEPT ![tail + 1] = arg[p]]
          /\ tail' = StrictNextIndex(tail)
          /\ len' = len + 1
          /\ enq' = Append(enq, arg[p])
          /\ Return(p, NoErr, Zero, TRUE)
          /\ UNCHANGED <<head, cap, closed, deq, atClose>>
  /\ UNCHANGED issued

\* the loop condition of BlockingEnqueue: for q.len == q.cap && !q.closed
StrictEnqueueWaits == len = cap /\ ~closed

StrictBlockingEnqueue(p) ==
  /\ InBody(p, "BlockingEnqueue")
  /\ IF StrictEnqueueWaits
     THEN /\ Wait(p)
          /\ UNCHANGED <<qvars, hist>>
     ELSE IF closed
     THEN /\ Return(p, ErrQueueClosed, Zero, FALSE)
          /\ UNCHANGED <<qvars, hist>>
     ELSE IF ~InRange(tail)
     THEN Panic(p)
     ELSE /\ items' = [items EXCEPT ![tail + 1] = arg[p]]
          /\ tail' = StrictNextIndex(tail)
          /\ len' = len + 1
          /\ enq' = Append(enq, arg[p])
          /\ Return(p, NoErr, Zero, TRUE)
          /\ UNCHANGED <<head, cap, closed, deq, atClose>>
  /\ UNCHANGED issued

\* the early returns of Dequeue: q.closed is tested before q.len
StrictDequeueCheck ==
  IF closed THEN ErrQueueClosed
  ELSE IF len = 0 THEN ErrQueueEmpty
  ELSE NoErr

StrictDequeue(p) ==
  /\ InBody(p, "Dequeue")
  /\ IF StrictDequeueCheck # NoErr
     THEN /\ Return(p, StrictDequeueCheck, Zero, FALSE)
          /\ UNCHANGED <<qvars, hist>>
     ELSE IF ~InRange(head)
     THEN Panic(p)
     ELSE /\ items' = [items EXCEPT ![head + 1] = Zero]
          /\ head' = StrictNextIndex(head)
          /\ len' = len - 1
          /\ deq' = Append(deq, items[head + 1])
          /\ Return(p, NoErr, items[head + 1], TRUE)
          /\ UNCHANGED <<tail, cap, closed, enq, atClose>>
  /\ UNCHANGED issued

\* the loop condition of BlockingDequeue: for q.len == 0 && !q.closed
StrictDequeueWaits == len = 0 /\ ~closed

StrictBlockingDequeue(p) ==
  /\ InBody(p, "BlockingDequeue")
  /\ IF StrictDequeueWaits
     THEN /\ Wait(p)
          /\ UNCHANGED <<qvars, hist>>
     ELSE IF closed
     THEN /\ Return(p, ErrQueueClosed, Zero, FALSE)
          /\ UNCHANGED <<qvars, hist>>
     ELSE IF ~InRange(head)
     THEN Panic(p)
     ELSE /\ items' = [items EXCEPT ![head + 1] = Zero]
          /\ head' = StrictNextIndex(head)
          /\ len' = len - 1
          /\ deq' = Append(deq, items[head + 1])
          /\ Return(p, NoErr, items[head + 1], TRUE)
          /\ UNCHANGED <<tail, cap, closed, enq, atClose>>
  /\ UNCHANGED issued

\* mutant: no ErrNewCapacityTooSmall return
StrictResizeCheckLoose(newCap) ==
  IF newCap = cap THEN "noop"
  ELSE IF newCap <= 0 THEN ErrCapacityNotPositive
  ELSE IF closed THEN ErrQueueClosed
  ELSE NoErr

\* the early returns of Resize, in the order of the code
StrictResizeCheck(newCap) ==
  IF newCap = cap THEN "noop"
  ELSE IF newCap <= 0 THEN ErrCapacityNotPositive
  ELSE IF newCap < len THEN ErrNewCapacityTooSmall
  ELSE IF closed THEN ErrQueueClosed
  ELSE NoErr

\* newItems := make([]T, newCap) after the copy from the old slice
StrictResizeItems(newCap) ==
  LET newItems == Make(newCap)
  IN  IF len > 0
      THEN IF head < tail
           THEN CopyInto(newItems, 0, Slice(items, head, tail))
           ELSE LET n == CopyCount(newItems, 0, Slice(items, head, Len(items)))
                IN  CopyInto(CopyInto(newItems, 0, Slice(items, head, Len(items))),
                             n, Slice(items, 0, tail))
      ELSE newItems

StrictResize(p) ==
  /\ InBody(p, "Resize")
  /\ IF StrictResizeCheck(arg[p]) = "noop"
     THEN /\ Return(p, NoErr, Zero, FALSE)
          /\ UNCHANGED qvars
     ELSE IF StrictResizeCheck(arg[p]) # NoErr
     THEN /\ Return(p, StrictResizeCheck(arg[p]), Zero, FALSE)
          /\ UNCHANGED qvars
     ELSE /\ items' = StrictResizeItems(arg[p])
          /\ head' = 0
          /\ tail' = len % arg[p]
          /\ cap' = arg[p]
          /\ Return(p, NoErr, Zero, TRUE)
          /\ UNCHANGED <<len, closed>>
  /\ UNCHANGED <<hist, issued>>

StrictCallEnqueue(p) ==
  /\ CanCall(p)
  /\ issued < MaxItems
  /\ \E o \in {"Enqueue", "BlockingEnqueue"} : Lock(p, o, issued + 1)
  /\ issued' = issued + 1

StrictCallDequeue(p) ==
  /\ CanCall(p)
  /\ \E o \in {"Dequeue", "BlockingDequeue"} : Lock(p, o, 0)
  /\ UNCHANGED issued

NextStrict ==
  \E p \in Procs :
    \/ StrictCallEnqueue(p)
    \/ StrictCallDequeue(p)
    \/ CallResize(p)
    \/ CallClose(p)
    \/ Relock(p)
    \/ StrictEnqueue(p)
    \/ StrictBlockingEnqueue(p)
    \/ StrictDequeue(p)
    \/ StrictBlockingDequeue(p)
    \/ StrictResize(p)
    \/ Close(p)

StrictSpec == Init /\ [][NextStrict]_vars

\* ======================================================================
\* Properties
\* ======================================================================
IsPrefix(s, t) == Len(s) <= Len(t) /\ s = SubSeq(t, 1, Len(s))

\* the number of occurrences of v in the sequence s
Count(s, v) == Cardinality({i \in 1 .. Len(s) : s[i] = v})

Values == 1 .. MaxItems

EnqOps == {"TryEnqueue", "Enqueue"}
DeqOps == {"TryDequeue", "Dequeue"}

\* goroutine p holds q.mu and is about to run the body of method o
About(p, o) == pc[p] = "cs" /\ mu = p /\ op[p] = o

\* C1: under any interleaving of TryEnqueue, Enqueue, TryDequeue, Dequeue,
\* Resize and Close, the sequence of items returned by successful dequeues
\* is a prefix of the sequence of items accepted by successful enqueues.
C1_FifoPrefix == IsPrefix(deq, enq)

\* C1 witness: two items have come out in order while a Resize below the
\* occupancy is in effect (the backing slice is longer than the capacity).
C1_Witness == Len(deq) >= 2 /\ IsPrefix(deq, enq) /\ Len(items) > cap

\* C2: no item is lost or duplicated: the multiset of accepted items equals
\* the multiset of returned items plus the stored items, and Len() equals
\* successful enqueues minus successful dequeues.
C2_Conservation ==
  /\ \A v \in Values \cup {Zero} :
       Count(enq, v) = Count(deq, v) + Count(Stored, v)
  /\ len = Len(enq) - Len(deq)

\* C2 witness: every item of the run was accepted, some have been returned
\* and some are still stored.
C2_Witness == Len(enq) = MaxItems /\ Len(deq) >= 1 /\ len >= 1

\* C3: every successful Resize(n) leaves the stored items, read from head in
\* FIFO order, and Len() unchanged.
C3_ResizePreserves ==
  [][\A p \in Procs :
       (About(p, "Resize") /\ ret'.err = NoErr)
         => (Stored' = Stored /\ len' = len)]_vars

\* C3 witness: a Resize below the current occupancy has just succeeded on a
\* queue holding at least two items.
C3_Witness ==
  /\ ret.op = "Resize" /\ ret.err = NoErr
  /\ ret.arg = cap /\ cap < len /\ len >= 2

\* C4: after Close the items present at close time are still returned in the
\* original order; a dequeue never returns ErrQueueClosed while len > 0, and
\* with len = 0 every TryDequeue and Dequeue returns ErrQueueClosed at once.
C4_DrainAfterClose ==
  [][closed =>
       /\ \A p \in Procs : \A o \in DeqOps :
            About(p, o) =>
              IF len > 0
              THEN /\ ret' = [proc |-> p, op |-> o, arg |-> 0,
                              err |-> NoErr, val |-> Head(Stored)]
                   /\ Stored' = Tail(Stored)
              ELSE /\ ret' = [proc |-> p, op |-> o, arg |-> 0,
                              err |-> ErrQueueClosed, val |-> Zero]
                   /\ pc'[p] = "idle"
                   /\ UNCHANGED qvars
       /\ \E k \in 0 .. Len(atClose) :
            /\ k <= Len(deq')
            /\ atClose = SubSeq(deq', Len(deq') - k + 1, Len(deq')) \o Stored'
     ]_vars

\* C4 witness: the queue held two items when it was closed, both have been
\* dequeued since, and a Dequeue has just returned ErrQueueClosed.
C4_Witness ==
  /\ closed /\ Len(atClose) >= 2 /\ len = 0
  /\ ret.op = "Dequeue" /\ ret.err = ErrQueueClosed

\* C5: once closed is true no item is enqueued again: TryEnqueue and Enqueue
\* return ErrQueueClosed whatever the occupancy, and len never increases.
C5_NoEnqueueAfterClose ==
  [][closed =>
       /\ len' <= len
       /\ enq' = enq
       /\ \A p \in Procs : \A o \in EnqOps :
            About(p, o) =>
              /\ ret'.proc = p /\ ret'.op = o /\ ret'.err = ErrQueueClosed
              /\ pc'[p] = "idle"
     ]_vars

\* C5 witness: an Enqueue that parked on a full queue has been woken and the
\* queue is now closed with a free slot.
C5_Witness ==
  \E p \in Procs :
    pc[p] = "woken" /\ op[p] = "Enqueue" /\ closed /\ len < cap

\* C6: under fair scheduling every goroutine parked in Enqueue or Dequeue
\* when Close takes effect eventually returns: once the queue is closed no
\* goroutine parks (again), every woken one re-acquires q.mu and returns, so
\* that all goroutines are eventually outside the queue's methods.  The
\* Enqueue returns ErrQueueClosed and its item is not stored; the Dequeue
\* returns ErrQueueClosed on an empty queue, never a zero value with no error.
C6_CloseReleasesWaiters ==
  /\ closed ~> (\A p \in Procs : pc[p] = "idle")
  /\ [][closed => \A p \in Procs :
          /\ pc'[p] # "wait"
          /\ pc'[p] = "woken" => pc[p] = "woken"
          /\ About(p, "Enqueue") =>
               /\ ret' = [proc |-> p, op |-> "Enqueue", arg |-> arg[p],
                          err |-> ErrQueueClosed, val |-> Zero]
               /\ pc'[p] = "idle"
               /\ enq' = enq /\ items' = items
          /\ About(p, "Dequeue") =>
               /\ ret'.proc = p /\ ret'.op = "Dequeue"
               /\ pc'[p] = "idle"
               /\ IF len = 0
                  THEN ret'.err = ErrQueueClosed
                  ELSE ret'.err = NoErr /\ ret'.val = Head(Stored)
                       /\ ret'.val # Zero
       ]_vars

\* C6 witness: Close has taken effect while one goroutine was parked in
\* Enqueue on a full queue and another in Dequeue.
C6_Witness ==
  \E p, r \in Procs :
    /\ closed /\ ret.op = "Close" /\ ret.err = NoErr
    /\ pc[p] = "woken" /\ op[p] = "Enqueue" /\ len >= cap
    /\ pc[r] = "woken" /\ op[r] = "Dequeue"

\* every call of the producers and consumers has returned
AllReturned ==
  /\ Len(enq) = MaxItems
  /\ Len(deq) = MaxItems
  /\ \A p \in Procs : pc[p] = "idle"

\* C7: on a queue that is never closed, when producers issue N blocking
\* Enqueue calls and consumers N blocking Dequeue calls, N larger than the
\* capacity, every call eventually returns successfully under fair
\* scheduling: no deadlock and no lost wakeup.
C7_AllCallsReturn == [](ret.err = NoErr) /\ <>[]AllReturned

\* C7 witness: all N calls on each side have returned although the capacity
\* is one, so that producers had to park.
C7_Witness == AllReturned /\ cap = 1 /\ deq = enq

\* C8 (as stated): in every reachable state 0 <= len <= capacity.
C8_Original == 0 <= len /\ len <= cap

\* C8 (amended): in every reachable state 0 <= len <= length of the backing
\* slice; len exceeds the capacity only in the over-full states left by a
\* Resize below the occupancy, in which the stored items fill the backing
\* slice from head to its end (nothing has been enqueued since).
C8_LenBounds ==
  /\ 0 <= len
  /\ len <= Len(items)
  /\ len > cap => (tail = 0 /\ head + len = Len(items))

\* C8 witness: an over-full state on which a TryEnqueue has just been refused.
C8_Witness == len > cap /\ ret.op = "TryEnqueue" /\ ret.err = ErrQueueFull

\* C9: on an open queue Resize(n) with 0 < n < len succeeds, sets Cap() to n
\* and keeps Len() and the stored items; afterwards the items are dequeued in
\* FIFO order and TryEnqueue fails with ErrQueueFull exactly while len >= n.
C9_ShrinkBelowOccupancy ==
  [][\A p \in Procs :
       /\ (About(p, "Resize") /\ ~closed /\ 0 < arg[p] /\ arg[p] < len)
            => /\ ret'.op = "Resize" /\ ret'.err = NoErr
               /\ cap' = arg[p] /\ len' = len /\ Stored' = Stored
       /\ (About(p, "TryEnqueue") /\ ~closed /\ Len(items) > cap)
            => IF len >= cap
               THEN ret'.err = ErrQueueFull /\ UNCHANGED qvars
               ELSE /\ ret'.err = NoErr
                    /\ len' = len + 1
                    /\ Stored' = Append(Stored, arg[p])
       /\ \A o \in DeqOps :
            (About(p, o) /\ Len(items) > cap /\ len > 0)
              => /\ ret'.err = NoErr /\ ret'.val = Head(Stored)
                 /\ Stored' = Tail(Stored)
     ]_vars

\* C9 witness: after a Resize below the occupancy the queue was drained
\* below the new capacity and a TryEnqueue has just succeeded.
C9_Witness ==
  /\ Len(items) > cap
  /\ ret.op = "TryEnqueue" /\ ret.err = NoErr
  /\ len = cap

C11_Original ==
  [][\A p \in Procs :
       (About(p, "TryEnqueue") /\ len = cap)
         => /\ ret'.proc = p /\ ret'.op = "TryEnqueue"
            /\ ret'.err = ErrQueueFull
            /\ pc'[p] = "idle"
            /\ UNCHANGED qvars]_vars

\* C11 (amended): TryEnqueue called with len >= capacity fails with
\* ErrQueueFull when the queue is open and with ErrQueueClosed when it is
\* closed; in both cases it returns without parking and leaves items, head,
\* tail, len, capacity and closed unchanged.
C11_TryEnqueueFull ==
  [][\A p \in Procs :
       (About(p, "TryEnqueue") /\ len >= cap)
         => /\ ret' = [proc |-> p, op |-> "TryEnqueue", arg |-> arg[p],
                       err |-> IF closed THEN ErrQueueClosed ELSE ErrQueueFull,
                       val |-> Zero]
            /\ pc'[p] = "idle"
            /\ UNCHANGED <<qvars, hist, waiters>>]_vars

\* C11 witness: a TryEnqueue has just been refused with ErrQueueFull on an
\* open queue holding exactly capacity items, after items went through it.
C11_Witness ==
  /\ ~closed /\ len = cap /\ Len(deq) >= 1
  /\ ret.op = "TryEnqueue" /\ ret.err = ErrQueueFull

\* C12: TryDequeue called on an open queue with len = 0 fails with
\* ErrQueueEmpty, does not block and leaves items, head, tail, len, capacity
\* and closed unchanged.
C12_TryDequeueEmpty ==
  [][\A p \in Procs :
       (About(p, "TryDequeue") /\ ~closed /\ len = 0)
         => /\ ret' = [proc |-> p, op |-> "TryDequeue", arg |-> 0,
                       err |-> ErrQueueEmpty, val |-> Zero]
            /\ pc'[p] = "idle"
            /\ UNCHANGED <<qvars, hist, waiters>>]_vars

\* C12 witness: a TryDequeue has just been refused with ErrQueueEmpty on an
\* open queue that was filled and drained before.
C12_Witness ==
  /\ ~closed /\ len = 0 /\ Len(deq) >= 1
  /\ ret.op = "TryDequeue" /\ ret.err = ErrQueueEmpty

C14_ResizeNonPositive ==
  [][\A p \in Procs :
       (About(p, "Resize") /\ arg[p] <= 0)
         => /\ ret' = [proc |-> p, op |-> "Resize", arg |-> arg[p],
                       err |-> ErrCapacityNotPositive, val |-> Zero]
            /\ pc'[p] = "idle"
            /\ UNCHANGED <<qvars, hist, waiters>>]_vars

\* C14 witness: Resize with a non-positive argument has just failed with
\* ErrCapacityNotPositive on a closed queue that still holds items.
C14_Witness ==
  /\ closed /\ len > 0
  /\ ret.op = "Resize" /\ ret.arg <= 0 /\ ret.err = ErrCapacityNotPositive

\* C15: Resize(n) on a closed queue with n > 0 and n # capacity fails with
\* ErrQueueClosed and leaves items, head, tail, len and capacity unchanged;
\* the stored items remain what is left to drain, in order, of the items
\* present at Close.
C15_ResizeClosedUnchanged ==
  /\ [][\A p \in Procs :
          (About(p, "Resize") /\ closed /\ arg[p] > 0 /\ arg[p] # cap)
            => /\ ret' = [proc |-> p, op |-> "Resize", arg |-> arg[p],
                          err |-> ErrQueueClosed, val |-> Zero]
               /\ pc'[p] = "idle"
               /\ Stored' = Stored
               /\ UNCHANGED <<qvars, hist, waiters>>]_vars
  /\ [](closed => \E k \in 0 .. Len(atClose) :
                    Stored = SubSeq(atClose, k + 1, Len(atClose)))

\* C15 witness: Resize has just failed with ErrQueueClosed on a closed queue
\* whose two stored items wrap around the end of the backing slice.
C15_Witness ==
  /\ closed /\ ret.op = "Resize" /\ ret.err = ErrQueueClosed
  /\ head > 0 /\ len = 2 /\ Stored = atClose

\* C16: the first Close, on an open queue, returns nil and sets closed; every
\* later Close returns ErrQueueClosed and changes nothing.  Neither touches
\* items, head, tail, len or capacity.
C16_CloseTwice ==
  [][\A p \in Procs :
       About(p, "Close")
         => /\ ret'.proc = p /\ ret'.op = "Close"
            /\ pc'[p] = "idle"
            /\ closed'
            /\ UNCHANGED <<items, head, tail, len, cap>>
            /\ IF closed
               THEN /\ ret'.err = ErrQueueClosed
                    /\ UNCHANGED <<qvars, hist, waiters>>
               ELSE ret'.err = NoErr]_vars

\* C16 witness: a second Close has just returned ErrQueueClosed on a queue
\* that was closed while holding items.
C16_Witness ==
  /\ closed /\ Len(atClose) >= 1
  /\ ret.op = "Close" /\ ret.err = ErrQueueClosed

\* C17: closed is a one-way flag: no step takes it from true to false.
C17_ClosedOneWay == [][closed => closed']_vars

\* C17 witness: the queue is still closed after it was drained and a Resize
\* was called on it.
C17_Witness ==
  /\ closed /\ Len(atClose) >= 1 /\ len = 0
  /\ ret.op = "Resize"

\* New has returned a queue
Constructed ==
  /\ \A p \in Procs : pc[p] # "start"
  /\ ~(ret.op = "New" /\ ret.err # NoErr)

\* C18: capacity >= 1 in every reachable state of a constructed queue: New
\* returns no queue for a non-positive capacity, and no Resize, successful
\* or failed, leaves capacity at zero or below.
C18_CapPositive == Constructed => cap >= 1

\* C18 witness: on an over-full queue of capacity 1, left by a shrinking
\* Resize, a Resize(0) has just failed.
C18_Witness ==
  /\ Constructed /\ cap = 1 /\ len > cap
  /\ ret.op = "Resize" /\ ret.arg = 0 /\ ret.err = ErrCapacityNotPositive

\* C19: New(n) with n <= 0 panics with ErrCapacityNotPositive and yields no
\* queue; New(n) with n > 0 yields an open, empty queue with len = 0,
\* capacity = n, head = tail = 0 and n zero-valued slots, its lock free and
\* nobody waiting.
C19_New ==
  ret.op = "New" =>
    IF ret.arg <= 0
    THEN /\ ret.err = ErrCapacityNotPositive
         /\ \A p \in Procs : pc[p] = "panic"
         /\ ~Constructed
         /\ <<items, head, tail, len, cap, closed>> =
              <<NoQueue.items, NoQueue.head, NoQueue.tail, NoQueue.len,
                NoQueue.cap, NoQueue.closed>>
    ELSE /\ ret.err = NoErr
         /\ \A p \in Procs : pc[p] = "idle"
         /\ Constructed
         /\ ~closed /\ len = 0 /\ cap = ret.arg /\ head = 0 /\ tail = 0
         /\ Len(items) = ret.arg
         /\ \A i \in 1 .. Len(items) : items[i] = Zero
         /\ mu = NoProc /\ waiters = {}

\* C19 witness: New has just panicked on a non-positive capacity.
C19_Witness ==
  /\ ret.op = "New" /\ ret.arg <= 0 /\ ret.err = ErrCapacityNotPositive
  /\ \A p \in Procs : pc[p] = "panic"

\* the methods that return without ever calling q.cond.Wait()
NonBlockingOps == {"TryEnqueue", "TryDequeue", "Len", "Cap", "Resize", "Close"}

\* C20: a goroutine parks on the condition variable only inside Enqueue,
\* having observed len >= capacity and not closed, or inside Dequeue, having
\* observed len = 0 and not closed; parking releases q.mu and a parked (or
\* woken, not yet running) goroutine holds no lock; TryEnqueue, TryDequeue,
\* Len, Cap, Resize and Close return in the step that runs their body.
C20_ParkingOnlyWhenBlocked ==
  /\ [](\A p \in Procs :
          /\ (pc[p] = "wait") <=> (p \in waiters)
          /\ pc[p] \in {"wait", "woken"}
               => (op[p] \in {"Enqueue", "Dequeue"} /\ mu # p))
  /\ [][\A p \in Procs :
          /\ (pc'[p] = "wait" /\ pc[p] # "wait")
               => /\ mu = p /\ mu' = NoProc
                  /\ \/ op[p] = "Enqueue" /\ len >= cap /\ ~closed
                     \/ op[p] = "Dequeue" /\ len = 0 /\ ~closed
                  /\ UNCHANGED qvars
          /\ \A o \in NonBlockingOps :
               About(p, o) => (pc'[p] = "idle" /\ ret'.proc = p)
       ]_vars

\* C20 witness: two goroutines are parked in Enqueue on a full open queue
\* and q.mu is free.
C20_Witness ==
  \E p, r \in Procs :
    /\ p # r /\ mu = NoProc /\ ~closed /\ len >= cap
    /\ pc[p] = "wait" /\ op[p] = "Enqueue"
    /\ pc[r] = "wait" /\ op[r] = "Enqueue"

\* the goroutines inside a section that reads or writes the queue's fields
InSection == {p \in Procs : pc[p] = "cs"}

\* C21: the methods are mutually exclusive through q.mu: at most one
\* goroutine is inside a section that reads or writes items, head, tail,
\* len, cap or closed, and it is the holder of q.mu; every step that changes
\* one of these fields is a step of the holder; a parked or woken goroutine
\* changes nothing until it has re-acquired q.mu, when it is the holder.
C21_MutualExclusion ==
  /\ [](/\ Cardinality(InSection) <= 1
        /\ \A p \in Procs : (pc[p] = "cs") <=> (mu = p))
  /\ [][/\ qvars' # qvars => (mu \in Procs /\ pc[mu] = "cs" /\ mu' = NoProc)
        /\ \A p \in Procs :
             (pc[p] \in {"wait", "woken"} /\ mu # NoProc)
               => pc'[p] \in {"wait", "woken"}
       ]_vars

\* C21 witness: a goroutine is inside Resize, holding q.mu, while one
\* goroutine is parked and another, woken, waits for q.mu.
C21_Witness ==
  \E p, r, w \in Procs :
    /\ pc[p] = "cs" /\ mu = p /\ op[p] = "Resize"
    /\ pc[r] = "wait" /\ pc[w] = "woken"

\* the goroutines inside a call of Enqueue
InEnqueue == {p \in Procs : op[p] = "Enqueue"}

\* Resize has just raised the capacity to at least len + k, where the k
\* goroutines of W were parked in Enqueue on the queue holding L items, and
\* no further Enqueue call is to come
GrownFor(W, L) ==
  /\ ret.op = "Resize" /\ ret.err = NoErr
  /\ InEnqueue = W
  /\ \A p \in W : pc[p] \in {"wait", "woken"}
  /\ ~closed /\ len = L
  /\ cap >= L + Cardinality(W)
  /\ issued = MaxItems

\* the Enqueue calls of W have returned and their items are stored
EnqueuedAll(W, L) ==
  /\ \A p \in W : pc[p] = "idle"
  /\ len = L + Cardinality(W)
  /\ deq = << >>
  /\ \A v \in Values : Count(Stored, v) = 1

\* C22: if k goroutines are parked in Enqueue on a full open queue and Resize
\* then raises the capacity to at least len + k, then under fair scheduling
\* all k calls eventually return nil with no dequeue taking place, after
\* which Len() is the old len + k and every enqueued item is stored once.
C22_GrowReleasesEnqueuers ==
  /\ \A W \in (SUBSET Procs) \ {{}} : \A L \in 0 .. MaxItems :
       GrownFor(W, L) ~> EnqueuedAll(W, L)
  /\ [](ret.op = "Enqueue" => ret.err = NoErr)

\* C22 witness: Resize has just raised the capacity of a full queue to
\* len + 2 while two goroutines were parked in Enqueue.
C22_Witness ==
  \E W \in SUBSET Procs :
    /\ Cardinality(W) = 2 /\ GrownFor(W, len)
    /\ Len(enq) = len /\ cap = len + 2

\* C23: Len() returns the current len and Cap() the current declared
\* capacity; neither changes a field of the queue or wakes a waiter, in
\* every state including closed and over-full ones.
C23_LenCapPure ==
  [][\A p \in Procs :
       /\ About(p, "Len")
            => /\ ret' = [proc |-> p, op |-> "Len", arg |-> 0,
                          err |-> NoErr, val |-> len]
               /\ pc' = [pc EXCEPT ![p] = "idle"]
               /\ UNCHANGED <<qvars, hist, waiters>>
       /\ About(p, "Cap")
            => /\ ret' = [proc |-> p, op |-> "Cap", arg |-> 0,
                          err |-> NoErr, val |-> cap]
               /\ pc' = [pc EXCEPT ![p] = "idle"]
               /\ UNCHANGED <<qvars, hist, waiters>>
     ]_vars

\* C23 witness: Cap() has just returned the declared capacity on a closed,
\* over-full queue, whose backing slice is longer.
C23_Witness ==
  /\ closed /\ len > cap /\ Len(items) > cap
  /\ ret.op = "Cap" /\ ret.val = cap

\* C24: in the variant that forbids shrinking below the occupancy, Resize(n)
\* with 0 < n < len fails with ErrNewCapacityTooSmall and changes nothing:
\* capacity, len and the stored items in their order stay as they were;
\* items are dequeued in the order they were enqueued, and 0 <= len <= cap
\* in every reachable state.
C24_StrictResizeTooSmall ==
  /\ [](0 <= len /\ len <= cap /\ Len(items) = cap /\ IsPrefix(deq, enq))
  /\ [][\A p \in Procs :
          (About(p, "Resize") /\ 0 < arg[p] /\ arg[p] < len)
            => /\ ret' = [proc |-> p, op |-> "Resize", arg |-> arg[p],
                          err |-> ErrNewCapacityTooSmall, val |-> Zero]
               /\ pc'[p] = "idle"
               /\ Stored' = Stored
               /\ UNCHANGED <<qvars, hist, waiters>>]_vars

\* C24 witness: in that variant a Resize below the occupancy has just been
\* refused on a queue whose two items wrap around the end of the slice.
C24_Witness ==
  /\ ret.op = "Resize" /\ ret.err = ErrNewCapacityTooSmall
  /\ 0 < ret.arg /\ ret.arg < len
  /\ head > 0 /\ len = 2 /\ cap = 2

\* C25: woken waiters re-check their condition and compete for what is
\* there: a Dequeue that finds the open queue empty (again) parks (again)
\* and one that finds an item returns the head item, so that of k goroutines
\* woken by one enqueue one returns the item and the others re-suspend; an
\* Enqueue that finds the open queue full parks and one that finds a free
\* slot stores its item.  The completed dequeues never outnumber the
\* completed enqueues and no enqueue takes len above the capacity.
C25_WaitersCompete ==
  /\ [](Len(deq) <= Len(enq))
  /\ [][/\ \A p \in Procs :
             /\ (About(p, "Dequeue") /\ ~closed)
                  => IF len = 0
                     THEN /\ pc'[p] = "wait" /\ p \in waiters'
                          /\ UNCHANGED <<qvars, hist>>
                     ELSE /\ ret' = [proc |-> p, op |-> "Dequeue", arg |-> 0,
                                     err |-> NoErr, val |-> Head(Stored)]
                          /\ len' = len - 1
                          /\ Stored' = Tail(Stored)
             /\ (About(p, "Enqueue") /\ ~closed)
                  => IF len >= cap
                     THEN /\ pc'[p] = "wait" /\ p \in waiters'
                          /\ UNCHANGED <<qvars, hist>>
                     ELSE /\ ret' = [proc |-> p, op |-> "Enqueue",
                                     arg |-> arg[p], err |-> NoErr,
                                     val |-> Zero]
                          /\ len' = len + 1
                          /\ Stored' = Append(Stored, arg[p])
        /\ len' > len => len' <= cap'
       ]_vars

\* C25 witness: two goroutines parked in Dequeue were woken by the only
\* item enqueued; one has just returned it and the other has yet to find
\* the queue empty again.
C25_Witness ==
  \E p, r \in Procs :
    /\ p # r /\ ~closed /\ len = 0 /\ Len(enq) = 1
    /\ ret.proc = r /\ ret.op = "Dequeue" /\ ret.err = NoErr
    /\ pc[p] = "woken" /\ op[p] = "Dequeue"

\* C26 (as stated): in every reachable state 0 <= head < capacity and
\* 0 <= tail < capacity.
C26_Original ==
  /\ 0 <= head /\ head < cap
  /\ 0 <= tail /\ tail < cap

\* C26 (amended): head and tail are taken modulo the length of the backing
\* slice, which is at least the capacity and exceeds it after a Resize below
\* the occupancy: in every reachable state 0 <= head < len(items),
\* 0 <= tail < len(items) and tail is head advanced len times modulo
\* len(items).
C26_CursorBounds ==
  /\ Len(items) >= cap
  /\ 0 <= head /\ head < Len(items)
  /\ 0 <= tail /\ tail < Len(items)
  /\ tail = (head + len) % Len(items)

\* C26 witness: after a Resize below the occupancy and a dequeue, head has
\* moved to an index at or beyond the capacity.
C26_Witness == head >= cap /\ Len(deq) >= 1 /\ len >= 1

\* the indices of the occupied slots: len slots from head, modulo the
\* length of the backing slice
Occupied == {(head + j) % Len(items) : j \in 0 .. (len - 1)}

\* C27: every slot of the backing slice outside the occupied range holds the
\* zero value: a dequeue clears the slot it reads and Resize leaves no copy
\* of an item outside the occupied range.
C27_UnusedSlotsZero ==
  \A i \in 0 .. (Len(items) - 1) : i \notin Occupied => items[i + 1] = Zero

\* C27 witness: items were dequeued, a Resize has since moved the rest, and
\* a slot outside the occupied range exists.
C27_Witness ==
  /\ Len(deq) >= 1 /\ len >= 1 /\ len < Len(items)
  /\ ret.op = "Resize" /\ ret.err = NoErr /\ head = 0

Max(a, b) == IF a > b THEN a ELSE b

\* s followed by zero values up to length n
PadZero(s, n) == [i \in 1 .. n |-> IF i <= Len(s) THEN s[i] ELSE Zero]

\* C28: after a successful Resize(n) with n different from the old capacity
\* the backing slice has length max(n, len), the stored items occupy indices
\* 0 .. len-1 in FIFO order (whether they were one slice [head, tail) or
\* wrapped around the end), head = 0, tail = len mod max(n, len),
\* capacity = n and len is unchanged.
C28_ResizePostcondition ==
  [][\A p \in Procs :
       (About(p, "Resize") /\ arg[p] # cap /\ ret'.err = NoErr)
         => /\ Len(items') = Max(arg[p], len)
            /\ items' = PadZero(Stored, Max(arg[p], len))
            /\ head' = 0
            /\ tail' = len % Max(arg[p], len)
            /\ cap' = arg[p]
            /\ len' = len /\ closed' = closed]_vars

\* C28 witness: a Resize to another capacity has just succeeded on a full
\* queue whose items wrapped around the end of the old slice.
C28_Witness ==
  /\ ret.op = "Resize" /\ ret.err = NoErr /\ cap = ret.arg
  /\ len = 2 /\ Len(deq) >= 1 /\ cap = 1 /\ Stored = <<2, 3>>

\* C29: every step that changes the state of the queue (a successful
\* enqueue or dequeue, a Resize that changes the capacity, the first Close)
\* wakes all parked goroutines: after it the wait set is empty and every
\* goroutine that was parked is woken; a woken goroutine does nothing but
\* re-acquire q.mu, after which it re-evaluates its condition in the body
\* of its method.
C29_BroadcastWakesAll ==
  [][/\ qvars' # qvars
          => /\ waiters' = {}
             /\ \A p \in waiters : pc'[p] = "woken"
     /\ \A p \in Procs :
          (pc[p] = "woken" /\ pc'[p] # "woken")
            => (pc'[p] = "cs" /\ mu' = p /\ op'[p] = op[p]
                /\ UNCHANGED qvars)
    ]_vars

\* C29 witness: a TryDequeue has just woken two goroutines parked in Enqueue
\* and the wait set is empty.
C29_Witness ==
  \E p, r \in Procs :
    /\ p # r /\ waiters = {}
    /\ ret.op = "TryDequeue" /\ ret.err = NoErr
    /\ pc[p] = "woken" /\ op[p] = "Enqueue"
    /\ pc[r] = "woken" /\ op[r] = "Enqueue"

\* C30: no enqueue takes effect in a state with len >= capacity: there
\* TryEnqueue fails and Enqueue parks (open queue) or fails (closed queue),
\* also in the over-full states; len rises above the capacity only by a
\* successful Resize, and while len > capacity it does not grow.
C30_NoEnqueueWhenFull ==
  [][/\ len' > len => (len < cap /\ enq' # enq)
     /\ enq' # enq => len < cap
     /\ \A p \in Procs :
          /\ (About(p, "TryEnqueue") /\ len >= cap)
               => (ret'.err \in {ErrQueueFull, ErrQueueClosed}
                   /\ UNCHANGED qvars)
          /\ (About(p, "Enqueue") /\ len >= cap)
               => (/\ IF closed THEN ret'.err = ErrQueueClosed
                                ELSE pc'[p] = "wait"
                   /\ UNCHANGED qvars)
     /\ (len' > cap' /\ len <= cap)
          => (ret'.op = "Resize" /\ ret'.err = NoErr /\ len' = len)
     /\ len > cap => len' <= len
    ]_vars

\* C30 witness: a goroutine is parked in Enqueue on an over-full queue.
C30_Witness ==
  \E p \in Procs :
    pc[p] = "wait" /\ op[p] = "Enqueue" /\ len > cap /\ ~closed

\* C31: with S = len(q.items), always capacity <= S, 0 <= len <= S,
\* 0 <= head < S, 0 <= tail < S and tail = (head + len) mod S; hence no
\* goroutine panics on an index, an enqueue writes a slot inside the slice
\* that holds no stored item and leaves every occupied slot as it was, a
\* dequeue reads an occupied slot inside the slice, and the slice a Resize
\* allocates has room for every stored item.
C31_StorageBounds ==
  /\ [](/\ cap <= Len(items)
        /\ 0 <= len /\ len <= Len(items)
        /\ InRange(head) /\ InRange(tail)
        /\ tail = (head + len) % Len(items)
        /\ \A p \in Procs : pc[p] # "panic")
  /\ [][/\ enq' # enq
            => (/\ InRange(tail) /\ tail \notin Occupied
                /\ \A i \in Occupied : items'[i + 1] = items[i + 1])
        /\ deq' # deq => (InRange(head) /\ head \in Occupied)
        /\ \A p \in Procs :
             (About(p, "Resize") /\ ret'.err = NoErr)
               => (Len(items') >= len /\ head <= Len(items)
                   /\ tail <= Len(items))
       ]_vars

\* C31 witness: the backing slice is longer than the capacity after a
\* shrinking Resize and, a dequeue later, the occupied range starts at the
\* last slot of it with tail wrapped to the front.
C31_Witness ==
  /\ Len(items) > cap /\ tail < head /\ len >= 1
  /\ ret.op \in DeqOps /\ ret.err = NoErr

\* C32: the capacity Cap() reports changes only in a successful Resize(n)
\* on an open queue, after which it is n; every successful Resize(n) leaves
\* it equal to n, every failed Resize and every TryEnqueue, Enqueue,
\* TryDequeue, Dequeue, Close, Len and Cap step leaves it unchanged, and
\* once the queue is closed no step changes it.
C32_CapFrame ==
  [][/\ cap' # cap
          => \E p \in Procs :
               /\ About(p, "Resize") /\ ~closed
               /\ ret'.op = "Resize" /\ ret'.err = NoErr
     /\ \A p \in Procs :
          /\ (About(p, "Resize") /\ ret'.err = NoErr) => cap' = arg[p]
          /\ (About(p, "Resize") /\ ret'.err # NoErr) => cap' = cap
          /\ (pc[p] = "cs" /\ mu = p /\ op[p] # "Resize") => cap' = cap
          /\ About(p, "Cap") => ret'.val = cap
     /\ closed => cap' = cap
    ]_vars

\* C32 witness: a Resize on a full queue has just raised the capacity to its
\* argument and woken a goroutine parked in Enqueue, and Cap() afterwards
\* is about to report it.
C32_Witness ==
  \E p, r \in Procs :
    /\ pc[p] = "woken" /\ op[p] = "Enqueue" /\ len < cap
    /\ About(r, "Cap") /\ cap = MaxCap /\ len >= 1 /\ ~closed
    /\ Len(deq) = 0

\* ------------------------------------------------ the two-mutex variant
\* An earlier Queue (queue.go:1-166): Enqueue and BlockingEnqueue take
\* q.muEnq, Dequeue and BlockingDequeue take q.muDeq, and every method then
\* takes q.cond.L, the mutex of the condition variable, whose holder is mu.
\* There is no Close.  Two more values of pc: "call", inside q.muEnq.Lock()
\* or q.muDeq.Lock(), and "held", holding that mutex and inside
\* q.cond.L.Lock().  The queue code of Enqueue, Dequeue and Resize is that
\* of the earliest variant (part_002:38-51, 54-69, 86-117) word for word.

OldEnqOps == {"Enqueue", "BlockingEnqueue"}
OldDeqOps == {"Dequeue", "BlockingDequeue"}

\* the holder of a mutex taken first thing in the methods ops and released
\* by their deferred Unlock: the goroutine past its Lock() in one of them
Holder(ops) ==
  IF \E p \in Procs : pc[p] \in {"held", "cs", "wait", "woken"} /\ op[p] \in ops
  THEN CHOOSE p \in Procs :
         pc[p] \in {"held", "cs", "wait", "woken"} /\ op[p] \in ops
  ELSE NoProc

muEnq == Holder(OldEnqOps)
muDeq == Holder(OldDeqOps)

\* the lowest idle goroutine makes the next call
OldCanCall(p) ==
  /\ pc[p] = "idle"
  /\ \A r \in 1 .. (p - 1) : pc[r] # "idle"

\* goroutine p calls method o with argument a and reaches the Lock() of the
\* method's first mutex
OldCall(p, o, a) ==
  /\ OldCanCall(p)
  /\ pc' = [pc EXCEPT ![p] = "call"]
  /\ op' = [op EXCEPT ![p] = o]
  /\ arg' = [arg EXCEPT ![p] = a]
  /\ ret' = NoRet
  /\ UNCHANGED <<qvars, mu, waiters, hist>>

OldCallEnqueue(p) ==
  /\ issued < MaxItems
  /\ \E o \in OldEnqOps : OldCall(p, o, issued + 1)
  /\ issued' = issued + 1

OldCallDequeue(p) ==
  /\ \E o \in OldDeqOps : OldCall(p, o, 0)
  /\ UNCHANGED issued

\* q.muEnq.Lock() or q.muDeq.Lock() returns: the mutex was free
OldLockFirst(p) ==
  /\ pc[p] = "call"
  /\ IF op[p] \in OldEnqOps THEN muEnq = NoProc ELSE muDeq = NoProc
  /\ pc' = [pc EXCEPT ![p] = "held"]
  /\ ret' = NoRet
  /\ UNCHANGED <<qvars, mu, waiters, op, arg, hist, issued>>

\* q.cond.L.Lock() returns
OldLockCond(p) ==
  /\ pc[p] = "held"
  /\ mu = NoProc
  /\ mu' = p
  /\ pc' = [pc EXCEPT ![p] = "cs"]
  /\ ret' = NoRet
  /\ UNCHANGED <<qvars, waiters, op, arg, hist, issued>>

\* q.cond.Signal(): the sets of goroutines it may wake, one parked
\* goroutine if there is any
Signal == IF waiters = {} THEN {{}} ELSE {{w} : w \in waiters}

\* return from a method that ran q.cond.Signal(): the deferred Unlocks of
\* q.cond.L and of the method's first mutex run
OldReturn(p, err, val) ==
  \E W \in Signal :
    /\ ret' = [proc |-> p, op |-> op[p], arg |-> arg[p], err |-> err,
               val |-> val]
    /\ mu' = NoProc
    /\ op' = [op EXCEPT ![p] = "none"]
    /\ arg' = [arg EXCEPT ![p] = 0]
    /\ pc' = [r \in Procs |-> IF r = p THEN "idle"
                              ELSE IF r \in W THEN "woken"
                              ELSE pc[r]]
    /\ waiters' = waiters \ W

\* q.items[q.tail] = item; q.tail = (q.tail + 1) % q.cap; q.len++;
\* q.cond.Signal()
OldPut(p) ==
  IF ~InRange(tail)
  THEN Panic(p)
  ELSE /\ items' = [items EXCEPT ![tail + 1] = arg[p]]
       /\ tail' = (tail + 1) % cap
       /\ len' = len + 1
       /\ enq' = Append(enq, arg[p])
       /\ OldReturn(p, NoErr, Zero)
       /\ UNCHANGED <<head, cap, closed, deq, atClose>>

\* item := q.items[q.head]; q.items[q.head] = zero;
\* q.head = (q.head + 1) % q.cap; q.len--; q.cond.Signal()
OldTake(p) ==
  IF ~InRange(head)
  THEN Panic(p)
  ELSE /\ items' = [items EXCEPT ![head + 1] = Zero]
       /\ head' = (head + 1) % cap
       /\ len' = len - 1
       /\ deq' = Append(deq, items[head + 1])
       /\ OldReturn(p, NoErr, items[head + 1])
       /\ UNCHANGED <<tail, cap, closed, enq, atClose>>

OldEnqueue(p) ==
  /\ InBody(p, "Enqueue")
  /\ IF len = cap
     THEN /\ Return(p, ErrQueueFull, Zero, FALSE)
          /\ UNCHANGED <<qvars, hist>>
     ELSE OldPut(p)
  /\ UNCHANGED issued

OldDequeue(p) ==
  /\ InBody(p, "Dequeue")
  /\ IF len = 0
     THEN /\ Return(p, ErrQueueEmpty, Zero, FALSE)
          /\ UNCHANGED <<qvars, hist>>
     ELSE OldTake(p)
  /\ UNCHANGED issued

\* for q.len == q.cap { q.cond.Wait() }: Wait releases q.cond.L only,
\* q.muEnq stays locked while the goroutine is parked
OldBlockingEnqueue(p) ==
  /\ InBody(p, "BlockingEnqueue")
  /\ IF len = cap
     THEN /\ Wait(p)
          /\ UNCHANGED <<qvars, hist>>
     ELSE OldPut(p)
  /\ UNCHANGED issued

\* for q.len == 0 { q.cond.Wait() }: q.muDeq stays locked meanwhile
OldBlockingDequeue(p) ==
  /\ InBody(p, "BlockingDequeue")
  /\ IF len = 0
     THEN /\ Wait(p)
          /\ UNCHANGED <<qvars, hist>>
     ELSE OldTake(p)
  /\ UNCHANGED issued

\* the guards of Resize: "noop" when newCap == q.cap
OldResizeCheck(newCap) ==
  IF newCap = cap THEN "noop"
  ELSE IF newCap < len THEN ErrNewCapacityTooSmall
  ELSE NoErr

\* newItems := make([]T, newCap) after the copy from the old slice
OldResizeItems(newCap) ==
  LET newItems == Make(newCap)
  IN  IF len > 0
      THEN IF tail > head
           THEN CopyInto(newItems, 0, Slice(items, head, tail))
           ELSE LET n == CopyCount(newItems, 0, Slice(items, head, Len(items)))
                IN  CopyInto(CopyInto(newItems, 0, Slice(items, head, Len(items))),
                             n, Slice(items, 0, tail))
      ELSE newItems

\* Resize takes q.cond.L only; q.tail = q.len, not reduced modulo newCap
OldResize(p) ==
  /\ InBody(p, "Resize")
  /\ IF OldResizeCheck(arg[p]) = "noop"
     THEN /\ Return(p, NoErr, Zero, FALSE)
          /\ UNCHANGED qvars
     ELSE IF OldResizeCheck(arg[p]) # NoErr
     THEN /\ Return(p, OldResizeCheck(arg[p]), Zero, FALSE)
          /\ UNCHANGED qvars
     ELSE /\ items' = OldResizeItems(arg[p])
          /\ head' = 0
          /\ tail' = len
          /\ cap' = arg[p]
          /\ Return(p, NoErr, Zero, TRUE)
          /\ UNCHANGED <<len, closed>>
  /\ UNCHANGED <<hist, issued>>

NextOld ==
  \E p \in Procs :
    \/ OldCallEnqueue(p)
    \/ OldCallDequeue(p)
    \/ CallResize(p)
    \/ OldLockFirst(p)
    \/ OldLockCond(p)
    \/ Relock(p)
    \/ OldEnqueue(p)
    \/ OldBlockingEnqueue(p)
    \/ OldDequeue(p)
    \/ OldBlockingDequeue(p)
    \/ OldResize(p)

OldSpec == Init /\ [][NextOld]_vars

\* C33: in the earliest variants, on a queue of positive capacity,
\* 0 <= head < cap and 0 <= tail < cap hold after any sequence of Enqueue,
\* Dequeue and Resize calls, no Enqueue or Dequeue indexes outside q.items
\* (also after Resize(n) with n the number of stored items, a Dequeue and
\* an Enqueue), and items leave in the order they entered.
C33_Original ==
  /\ cap > 0 => (0 <= head /\ head < cap /\ 0 <= tail /\ tail < cap)
  /\ \A p \in Procs : pc[p] # "panic"
  /\ IsPrefix(deq, enq)

\* C33 witness: the program has stopped on the index panic of an enqueue
\* into a queue that is not full, with tail == cap left by a Resize and an
\* item dequeued since.
C33_Witness ==
  /\ \A p \in Procs : pc[p] = "panic"
  /\ cap > 0 /\ tail = cap /\ len < cap /\ Len(deq) >= 1

\* C34: in the two-mutex variant a goroutine that has called the
\* non-blocking Enqueue or Dequeue never waits for a goroutine parked in
\* BlockingEnqueue or BlockingDequeue: the mutex it is about to take is not
\* held by a parked goroutine.
C34_Original ==
  \A p, r \in Procs :
    (pc[p] = "call" /\ op[p] \in {"Enqueue", "Dequeue"} /\ pc[r] = "wait")
      => r # (IF op[p] = "Enqueue" THEN muEnq ELSE muDeq)

\* C34 witness: on a full queue one goroutine is parked in BlockingEnqueue
\* holding q.muEnq, nobody has been signalled, and another goroutine that
\* called Enqueue is inside q.muEnq.Lock() with q.cond.L free.
C34_Witness ==
  \E p, r \in Procs :
    /\ pc[p] = "call" /\ op[p] = "Enqueue"
    /\ pc[r] = "wait" /\ op[r] = "BlockingEnqueue" /\ muEnq = r
    /\ len = cap /\ cap > 0 /\ mu = NoProc /\ waiters = {r}

====
